---- MODULE Spec2Model ----
(***************************************************************************)
(* Model of the imposter party-game backend (FastAPI + SQLAlchemy).        *)
(*                                                                         *)
(* State: the three tables of app/db_models.py (games, players, votes),    *)
(* the GameManager's only attribute `connections`, and the outcome of the  *)
(* last call.  Three specifications:                                       *)
(*   Spec         the HTTP routes of app/routes/game.py;                   *)
(*   SpecManager  the routes, and reveal_answers / reveal_imposter of      *)
(*                GameManager called directly;                             *)
(*   SpecTally    the vote tally of reveal_imposter as a pure function     *)
(*                over bounded sets of vote rows.                          *)
(***************************************************************************)
EXTENDS Integers, Sequences, FiniteSets, TLC

\* ------------------------------------------------------------------ bounds
MaxNames == 4
MaxVotes == 3
MaxSockets == 3

MaxRegistrants == 2

MaxRoomPlayers == 3

MaxRoomSockets == 2

MaxRoomRegistrants == 1

\* One room code: every operation is keyed by game_id and reads or writes
\* only that game's rows.
Rooms == {"r1"}
AllNames == <<"H", "P1", "P2", "P3", "P4", "P5">>
Names == {AllNames[i] : i \in 1..MaxNames}
Answers == {"pizza", "noodles"}
AllSockets == <<"s1", "s2", "s3", "s4", "s5">>
Sockets == {AllSockets[i] : i \in 1..MaxSockets}

\* The names under which sockets are registered.
Registrants == {AllNames[i] : i \in 1..MaxRegistrants}

\* ------------------------------------------------------------- data model
None == "None"
NoRow == "NoRow"
EmptyDict == [x \in {} |-> None]

\* GameStage values the code writes (models.py) and the literals of
\* reveal_answers / reveal_imposter.
WAITING == "waiting_for_players"
QUESTION == "question_answering"
REVEAL_ANSWERS == "reveal_answers"
GAME_END == "game_end"

\* generate_questions(): the fixed (main, imposter) pair.
generate_questions == <<"What's your favorite food?", "A chinese cuisine?">>
q_main == generate_questions[1]
q_imposter == generate_questions[2]

\* A row of the players table as create_game / join_game insert it
\* (column defaults of DBPlayer).  The uuid4 player_id is represented by the
\* row's key: (game_id, name) is unique per the table's UniqueConstraint.
DBPlayer(is_host) ==
    [is_host |-> is_host, score |-> 0, question |-> None, answer |-> None,
     is_imposter |-> FALSE]

\* The attributes GameManager.__init__ sets on the instance.
GameManagerAttrs == {"connections"}

VARIABLES
    dbStage,      \* games table: game_id -> stage, NoRow when there is no row
    dbPlayers,    \* players table: game_id -> (name -> row)
    dbVotes,      \* votes table: game_id -> sequence of rows, by vote_id
    connections,  \* GameManager.connections: game_id -> {player_name: socket}
    tally,        \* vote_counts / max_votes / most_voted_ids of the last tally
    last,         \* the last call and what it returned or raised
    wsState,      \* each WebSocket: "new" (not accepted), "open", "gone"
    bc,           \* the broadcast call in flight, or the last one that ended
    uc            \* the send_to_player call in flight, or the last that ended

regVars == <<wsState, bc, uc>>

vars == <<dbStage, dbPlayers, dbVotes, connections, tally, last, regVars>>

\* No broadcast / send_to_player call has been made.
NoBroadcast ==
    [status |-> "idle", game_id |-> None, pending |-> {}, size |-> 0,
     len |-> 0,
     dead_connections |-> <<>>, sent |-> {}, failed |-> {},
     untouched |-> EmptyDict, overtaken |-> {}, detached |-> FALSE,
     old |-> EmptyDict]

NoUnicast ==
    [status |-> "idle", game_id |-> None, player |-> None, websocket |-> None,
     sent |-> FALSE]

NoTally == [vote_counts |-> EmptyDict, max_votes |-> 0, most_voted_ids |-> {}]

Call(cmd, g, p, arg, status, imposters) ==
    [cmd |-> cmd, game_id |-> g, player |-> p, arg |-> arg, status |-> status,
     imposters |-> imposters]

Init ==
    /\ dbStage = [g \in Rooms |-> NoRow]
    /\ dbPlayers = [g \in Rooms |-> EmptyDict]
    /\ dbVotes = [g \in Rooms |-> <<>>]
    /\ connections = EmptyDict
    /\ tally = NoTally
    /\ last = Call("init", None, None, None, "ok", {})
    /\ wsState = [s \in Sockets |-> "new"]
    /\ bc = NoBroadcast
    /\ uc = NoUnicast

\* ------------------------------------------------------------ GameManager
\* Game.__init__ (models.py): a fresh Game has imposters = [] and votes = {}.
NoGame == [players |-> EmptyDict, stage |-> NoRow, imposters |-> {},
           votes |-> EmptyDict]

IsNone(game) == game.stage = NoRow

\* _db_game_to_memory copies stage and, per player, score / question /
\* answer / is_imposter into a fresh Game; game.imposters and game.votes stay
\* as Game.__init__ left them.
db_game_to_memory(stage, rows) ==
    [players |-> rows, stage |-> stage, imposters |-> {}, votes |-> EmptyDict]

\* get_game: None (NoGame) when the games table has no row for game_id.
get_game(g) ==
    IF dbStage[g] = NoRow THEN NoGame
    ELSE db_game_to_memory(dbStage[g], dbPlayers[g])

\* broadcast / send_to_player: connect is not among the actions of these
\* specifications, so connections[game_id] is absent or empty and both
\* return before any send (lines 189-196, 209-215).
registered(g) == IF g \in DOMAIN connections THEN DOMAIN connections[g] ELSE {}

broadcast(g) ==
    /\ registered(g) = {}
    /\ UNCHANGED connections

send_to_player(g, name) == name \notin registered(g)

\* create_game: game_id = uuid4()[:6] is not checked against existing rows;
\* a code already used violates the primary key at commit.
create_game_status(g) == IF dbStage[g] # NoRow THEN "IntegrityError" ELSE "ok"

create_game(g, host_name) ==
    IF create_game_status(g) = "ok"
    THEN /\ dbStage' = [dbStage EXCEPT ![g] = WAITING]
         /\ dbPlayers' = [dbPlayers EXCEPT ![g] = (host_name :> DBPlayer(TRUE))]
         /\ connections' = (g :> EmptyDict) @@ connections
    ELSE UNCHANGED <<dbStage, dbPlayers, connections>>

\* join_game, lines 76-88: no check of the stage.
join_game_status_any_name(g, player_name) ==
    IF dbStage[g] = NoRow THEN "GameNotFound" ELSE "ok"

join_game_status(g, player_name) ==
    IF dbStage[g] = NoRow THEN "GameNotFound"
    ELSE IF player_name \in DOMAIN dbPlayers[g] THEN "NameTaken"
    ELSE "ok"

join_game(g, player_name) ==
    IF join_game_status(g, player_name) = "ok"
    THEN dbPlayers' = [dbPlayers EXCEPT
                          ![g] = (player_name :> DBPlayer(FALSE)) @@ @]
    ELSE UNCHANGED dbPlayers

\* start_game, line 257.
too_few_players_lt2(game) == Cardinality(DOMAIN game.players) < 2

too_few_players(game) == Cardinality(DOMAIN game.players) < 3

\* start_game, lines 261-262: random.randint(1, n - 1), then random.sample.
imposter_choices_upto_n(players) ==
    {S \in SUBSET players : Cardinality(S) \in 1..Cardinality(players)}

imposter_choices(players) ==
    {S \in SUBSET players : Cardinality(S) \in 1..(Cardinality(players) - 1)}

\* start_game, lines 269-281.
assign_questions(rows, imposters) ==
    [n \in DOMAIN rows |->
        [rows[n] EXCEPT !.question = IF n \in imposters THEN q_imposter
                                     ELSE q_main,
                        !.is_imposter = n \in imposters]]

\* start_game: no check of the stage.
start_game_status(g) ==
    IF IsNone(get_game(g)) THEN "GameNotFound"
    ELSE IF too_few_players(get_game(g)) THEN "NotEnoughPlayers"
    ELSE "ok"

start_game(g, imposters) ==
    IF start_game_status(g) = "ok"
    THEN /\ imposters \in imposter_choices(DOMAIN get_game(g).players)
         /\ dbPlayers' = [dbPlayers EXCEPT
                             ![g] = assign_questions(get_game(g).players,
                                                     imposters)]
         /\ dbStage' = [dbStage EXCEPT ![g] = QUESTION]
    ELSE /\ imposters = {}
         /\ UNCHANGED <<dbStage, dbPlayers>>

\* ----------------------------------------------------------------- routes
\* POST /create_game
post_create_game(g, host_name) ==
    /\ create_game(g, host_name)
    /\ last' = Call("create_game", g, host_name, None, create_game_status(g), {})
    /\ UNCHANGED <<dbVotes, tally, regVars>>

\* POST /join_game
post_join_game(g, player_name) ==
    /\ join_game(g, player_name)
    /\ broadcast(g)
    /\ last' = Call("join_game", g, player_name, None,
                    join_game_status(g, player_name), {})
    /\ UNCHANGED <<dbStage, dbVotes, tally, regVars>>

\* POST /start_game/{game_id}: the response lists the imposters' names.
post_start_game(g) ==
    \E imposters \in SUBSET Names :
        /\ start_game(g, imposters)
        /\ broadcast(g)
        /\ \A n \in DOMAIN dbPlayers[g] : send_to_player(g, n)
        /\ last' = Call("start_game", g, None, None, start_game_status(g),
                        imposters)
        /\ UNCHANGED <<dbVotes, tally, regVars>>

\* submit_answer, vote, restart_game and end_game all begin with
\* game_manager.games.get(game_id); GameManager has no attribute `games`,
\* so the read raises AttributeError before anything else runs.
post_submit_answer(g, player_id, answer) ==
    /\ "games" \notin GameManagerAttrs
    /\ last' = Call("submit_answer", g, player_id, answer, "AttributeError", {})
    /\ UNCHANGED <<dbStage, dbPlayers, dbVotes, connections, tally, regVars>>

post_vote(g, player_id, target_id) ==
    /\ "games" \notin GameManagerAttrs
    /\ last' = Call("vote", g, player_id, target_id, "AttributeError", {})
    /\ UNCHANGED <<dbStage, dbPlayers, dbVotes, connections, tally, regVars>>

post_restart_game(g) ==
    /\ "games" \notin GameManagerAttrs
    /\ last' = Call("restart_game", g, None, None, "AttributeError", {})
    /\ UNCHANGED <<dbStage, dbPlayers, dbVotes, connections, tally, regVars>>

post_end_game(g) ==
    /\ "games" \notin GameManagerAttrs
    /\ last' = Call("end_game", g, None, None, "AttributeError", {})
    /\ UNCHANGED <<dbStage, dbPlayers, dbVotes, connections, tally, regVars>>

Next ==
    \E g \in Rooms :
        \/ \E n \in Names : post_create_game(g, n)
        \/ \E n \in Names : post_join_game(g, n)
        \/ post_start_game(g)
        \/ \E n \in Names, a \in Answers : post_submit_answer(g, n, a)
        \/ \E n, t \in Names : post_vote(g, n, t)
        \/ post_restart_game(g)
        \/ post_end_game(g)

Spec == Init /\ [][Next]_vars

\* ------------------------------------------- GameManager, called directly
\* reveal_answers and reveal_imposter are called by submit_answer and vote
\* only, after the failing read of game_manager.games; SpecManager adds them
\* to the routes as calls made on the manager itself.
\* reveal_answers: no check of the stage; the results list goes to broadcast.
reveal_answers_status(g) == IF IsNone(get_game(g)) THEN "GameNotFound" ELSE "ok"

reveal_answers(g) ==
    /\ IF reveal_answers_status(g) = "ok"
       THEN dbStage' = [dbStage EXCEPT ![g] = REVEAL_ANSWERS] /\ broadcast(g)
       ELSE UNCHANGED <<dbStage, connections>>

\* reveal_imposter, lines 331-335: vote_counts over the rows of the game.
RECURSIVE count_votes(_, _)
count_votes(votes, vote_counts) ==
    IF votes = <<>> THEN vote_counts
    ELSE LET voted_id == Head(votes).voted_player_id
             seen == IF voted_id \in DOMAIN vote_counts
                     THEN vote_counts[voted_id] ELSE 0
         IN count_votes(Tail(votes),
                        (voted_id :> seen + 1) @@ vote_counts)

\* line 337: max(vote_counts.values(), default=0)
max_votes(vote_counts) ==
    IF DOMAIN vote_counts = {} THEN 0
    ELSE CHOOSE m \in {vote_counts[t] : t \in DOMAIN vote_counts} :
            \A t \in DOMAIN vote_counts : vote_counts[t] <= m

\* line 338
most_voted_ids_one(vote_counts) ==
    IF DOMAIN vote_counts = {} THEN {}
    ELSE {CHOOSE pid \in DOMAIN vote_counts :
             vote_counts[pid] = max_votes(vote_counts)}

most_voted_ids(vote_counts) ==
    {pid \in DOMAIN vote_counts : vote_counts[pid] = max_votes(vote_counts)}

tally_of(votes) ==
    LET vote_counts == count_votes(votes, EmptyDict)
    IN [vote_counts |-> vote_counts, max_votes |-> max_votes(vote_counts),
        most_voted_ids |-> most_voted_ids(vote_counts)]

\* lines 341-347: the new score of one player.
score_after(n, score, imposters, most_voted) ==
    IF n \in imposters /\ n \notin most_voted THEN score + 2
    ELSE IF n \notin imposters /\ (\E imp \in imposters : imp \in most_voted)
    THEN score + 1
    ELSE score

\* reveal_imposter: game comes from get_game, so game.imposters is the empty
\* list of a fresh Game; no check of the stage; returns None on no game.
reveal_imposter(g) ==
    LET game == get_game(g)
        t == tally_of(dbVotes[g])
    IN IF IsNone(game)
       THEN UNCHANGED <<dbStage, dbPlayers, connections, tally>>
       ELSE /\ tally' = t
            /\ dbPlayers' = [dbPlayers EXCEPT ![g] =
                  [n \in DOMAIN game.players |->
                      [game.players[n] EXCEPT !.score =
                          score_after(n, @, game.imposters,
                                      t.most_voted_ids)]]]
            /\ dbStage' = [dbStage EXCEPT ![g] = GAME_END]
            /\ broadcast(g)

call_reveal_answers(g) ==
    /\ reveal_answers(g)
    /\ last' = Call("reveal_answers", g, None, None, reveal_answers_status(g),
                    {})
    /\ UNCHANGED <<dbPlayers, dbVotes, tally, regVars>>

call_reveal_imposter(g) ==
    /\ reveal_imposter(g)
    /\ last' = Call("reveal_imposter", g, None, None, "ok",
                    get_game(g).imposters)
    /\ UNCHANGED <<dbVotes, regVars>>

NextManager ==
    \/ Next
    \/ \E g \in Rooms : call_reveal_answers(g)
    \/ \E g \in Rooms : call_reveal_imposter(g)

SpecManager == Init /\ [][NextManager]_vars

\* ------------------------------------------------ the tally, as a function
\* Rows the votes table admits for one game: voter and voted player ids,
\* at most one row per voter (UniqueConstraint unique_vote_per_player).
DBVote == [voter_player_id : Names, voted_player_id : Names]

VoteRows ==
    {votes \in UNION {[1..k -> DBVote] : k \in 0..MaxVotes} :
        \A i, j \in DOMAIN votes :
            votes[i].voter_player_id = votes[j].voter_player_id => i = j}

InitTally ==
    /\ dbStage = [g \in Rooms |-> NoRow]
    /\ dbPlayers = [g \in Rooms |-> EmptyDict]
    /\ dbVotes \in [Rooms -> VoteRows]
    /\ connections = EmptyDict
    /\ tally = NoTally
    /\ last = Call("init", None, None, None, "ok", {})
    /\ wsState = [s \in Sockets |-> "new"]
    /\ bc = NoBroadcast
    /\ uc = NoUnicast

tally_votes(g) ==
    /\ tally' = tally_of(dbVotes[g])
    /\ last' = Call("tally", g, None, None, "ok", {})
    /\ UNCHANGED <<dbStage, dbPlayers, dbVotes, connections, regVars>>

NextTally == \E g \in Rooms : tally_votes(g)

SpecTally == InitTally /\ [][NextTally]_vars

\* ------------------------------------------------ the connection registry
\* WebSocket.accept completes the handshake once: on a socket that is not
\* waiting for it, it raises RuntimeError.  send_json raises on a socket
\* whose peer is gone.
accept_raises(state) == state # "new"

send_raises(state) == state # "open"

conns(g) == IF g \in DOMAIN connections THEN connections[g] ELSE EmptyDict

dict_del(d, k) == [n \in DOMAIN d \ {k} |-> d[n]]

\* The dict iterator of a running broadcast (line 219) when another call
\* writes connections[game_id]: an inserted key is appended after the
\* iterator, a deleted key is no longer ahead of it, a replaced value keeps
\* its place.  `untouched` keeps the entries the dict had at the call that
\* no other call has written since; `sent` and `failed` are the sockets
\* whose send_json returned and raised; `overtaken` are the sockets that,
\* before this broadcast sent to them, received the event of a
\* send_to_player called after it.  When create_game assigns a new dict to
\* connections[game_id], the iterator keeps walking the dict it started on:
\* `detached` is set and `old` holds that dict.
iter_after_set(b, g, name) ==
    IF b.status = "running" /\ b.game_id = g /\ ~b.detached
    THEN [b EXCEPT !.pending = IF name \in registered(g) THEN @
                                ELSE @ \cup {name},
                   !.untouched = dict_del(@, name)]
    ELSE b

iter_after_del(b, g, name) ==
    IF b.status = "running" /\ b.game_id = g /\ ~b.detached
    THEN [b EXCEPT !.pending = @ \ {name},
                   !.untouched = dict_del(@, name)]
    ELSE b

\* create_game, line 60: self.connections[game_id] = {}.
iter_after_replace(b, g) ==
    IF b.status = "running" /\ b.game_id = g /\ ~b.detached
    THEN [b EXCEPT !.detached = TRUE, !.old = conns(g),
                   !.untouched = EmptyDict]
    ELSE b

\* The record of a broadcast call on g that has ended: its frame is gone.
ended(g, status) == [NoBroadcast EXCEPT !.status = status, !.game_id = g]

\* The dict a broadcast iterates.
iterated(b) == IF b.detached THEN b.old ELSE connections[b.game_id]

\* connect, lines 174-177.
register(websocket, g, player_name) ==
    /\ connections' =
          (g :> ((player_name :> websocket) @@ conns(g))) @@ connections
    /\ bc' = iter_after_set(bc, g, player_name)

\* connect, line 172: await websocket.accept().
connect_status(state) == IF accept_raises(state) THEN "RuntimeError" ELSE "ok"

connect(websocket, g, player_name) ==
    IF connect_status(wsState[websocket]) = "ok"
    THEN /\ wsState' = [wsState EXCEPT ![websocket] = "open"]
         /\ register(websocket, g, player_name)
    ELSE UNCHANGED <<wsState, connections, bc>>

\* disconnect: the entry under player_name is deleted whatever socket it
\* holds; the websocket argument is not read.
disconnect_every_room(websocket, g, player_name) ==
    IF player_name \in registered(g)
    THEN /\ connections' = [x \in DOMAIN connections |->
                               dict_del(connections[x], player_name)]
         /\ bc' = iter_after_del(bc, g, player_name)
    ELSE UNCHANGED <<connections, bc>>

disconnect(websocket, g, player_name) ==
    IF player_name \in registered(g)
    THEN /\ connections' = [connections EXCEPT ![g] = dict_del(@, player_name)]
         /\ bc' = iter_after_del(bc, g, player_name)
    ELSE UNCHANGED <<connections, bc>>

\* broadcast, lines 227-228: del per name of dead_connections, in order;
\* a name no longer registered raises KeyError and ends the loop.
RECURSIVE evict(_, _)
evict(d, dead_connections) ==
    IF dead_connections = <<>> THEN [dict |-> d, status |-> "done"]
    ELSE IF Head(dead_connections) \notin DOMAIN d
    THEN [dict |-> d, status |-> "KeyError"]
    ELSE evict(dict_del(d, Head(dead_connections)), Tail(dead_connections))

\* broadcast, lines 219-228: from the iterator's next() to the await of the
\* next send_json, or to the end of the call.  The iterator (CPython 3.8
\* and later) raises RuntimeError when the dict's size is not the size it
\* started with, and when it finds an item after having yielded as many
\* items as the dict had at the start (`len` counts those left to yield).
broadcast_turn(b) ==
    LET g == b.game_id
    IN IF Cardinality(DOMAIN iterated(b)) # b.size
       THEN /\ bc' = ended(g, "RuntimeError")
            /\ UNCHANGED connections
       ELSE IF b.pending = {}
       THEN LET e == evict(connections[g], b.dead_connections)
            IN /\ connections' = [connections EXCEPT ![g] = e.dict]
               /\ bc' = ended(g, e.status)
       ELSE IF b.len = 0
       THEN /\ bc' = ended(g, "RuntimeError")
            /\ UNCHANGED connections
       ELSE \E player_name \in b.pending :
               LET websocket == iterated(b)[player_name]
                   raises == send_raises(wsState[websocket])
               IN /\ bc' = [b EXCEPT
                       !.pending = @ \ {player_name},
                       !.len = @ - 1,
                       !.sent = IF raises THEN @ ELSE @ \cup {websocket},
                       !.failed = IF raises THEN @ \cup {websocket} ELSE @,
                       !.dead_connections =
                           IF raises THEN Append(@, player_name) ELSE @]
                  /\ UNCHANGED connections

\* broadcast, lines 207-217 and the first turn of the loop.
broadcast_call(g) ==
    /\ bc.status # "running"
    /\ IF registered(g) = {}
       THEN /\ bc' = ended(g, "done")
            /\ UNCHANGED connections
       ELSE broadcast_turn(
               [status |-> "running", game_id |-> g,
                pending |-> registered(g),
                size |-> Cardinality(registered(g)),
                len |-> Cardinality(registered(g)),
                dead_connections |-> <<>>, sent |-> {}, failed |-> {},
                untouched |-> connections[g], overtaken |-> {},
                detached |-> FALSE, old |-> EmptyDict])
    /\ UNCHANGED <<dbStage, dbPlayers, dbVotes, tally, last, wsState, uc>>

\* broadcast resumed after an await of send_json.
broadcast_resume ==
    /\ bc.status = "running"
    /\ broadcast_turn(bc)
    /\ UNCHANGED <<dbStage, dbPlayers, dbVotes, tally, last, wsState, uc>>

\* send_to_player, lines 189-201: up to the await of send_json.
send_to_player_call(g, player_name) ==
    /\ uc.status # "sending"
    /\ uc' = IF player_name \notin registered(g)
             THEN [NoUnicast EXCEPT !.status = "done"]
             ELSE [status |-> "sending", game_id |-> g,
                   player |-> player_name,
                   websocket |-> connections[g][player_name],
                   sent |-> ~send_raises(
                               wsState[connections[g][player_name]])]
    /\ bc' = IF /\ bc.status = "running" /\ bc.game_id = g
                /\ ~bc.detached
                /\ player_name \in bc.pending
                /\ ~send_raises(wsState[connections[g][player_name]])
             THEN [bc EXCEPT !.overtaken =
                                @ \cup {connections[g][player_name]}]
             ELSE bc
    /\ UNCHANGED <<dbStage, dbPlayers, dbVotes, tally, last, wsState,
                   connections>>

\* send_to_player resumed: lines 202-205; the del raises KeyError when the
\* name is no longer registered.
send_to_player_resume ==
    /\ uc.status = "sending"
    /\ IF uc.sent
       THEN /\ uc' = [NoUnicast EXCEPT !.status = "done"]
            /\ UNCHANGED <<connections, bc>>
       ELSE IF uc.player \in registered(uc.game_id)
       THEN /\ uc' = [NoUnicast EXCEPT !.status = "done"]
            /\ connections' = [connections EXCEPT
                                  ![uc.game_id] = dict_del(@, uc.player)]
            /\ bc' = iter_after_del(bc, uc.game_id, uc.player)
       ELSE /\ uc' = [NoUnicast EXCEPT !.status = "KeyError"]
            /\ UNCHANGED <<connections, bc>>
    /\ UNCHANGED <<dbStage, dbPlayers, dbVotes, tally, last, wsState>>

\* The peer of an open socket goes away.
ws_gone(websocket) ==
    /\ wsState[websocket] = "open"
    /\ wsState' = [wsState EXCEPT ![websocket] = "gone"]
    /\ UNCHANGED <<dbStage, dbPlayers, dbVotes, tally, last, connections,
                   bc, uc>>

call_connect(websocket, g, player_name) ==
    /\ connect(websocket, g, player_name)
    /\ UNCHANGED <<dbStage, dbPlayers, dbVotes, tally, last, uc>>

call_disconnect(websocket, g, player_name) ==
    /\ disconnect(websocket, g, player_name)
    /\ UNCHANGED <<dbStage, dbPlayers, dbVotes, tally, last, wsState, uc>>

\* send_current_state: the snapshot is sent only when the game exists.
send_current_state(g) ==
    IF IsNone(get_game(g)) THEN "no_state" ELSE "current_state"

\* The websocket route, lines 12-17 and 34-36: accept, then connect, which
\* accepts again; on an exception the socket is closed.  The receive loop
\* of lines 19-28 follows a connect that returned.
ws_endpoint(websocket, g, player_name) ==
    /\ wsState[websocket] = "new"
    /\ IF connect_status("open") = "ok"
       THEN /\ wsState' = [wsState EXCEPT ![websocket] = "open"]
            /\ register(websocket, g, player_name)
            /\ last' = Call("ws_endpoint", g, player_name, websocket,
                            send_current_state(g), {})
       ELSE /\ wsState' = [wsState EXCEPT ![websocket] = "gone"]
            /\ last' = Call("ws_endpoint", g, player_name, websocket,
                            connect_status("open"), {})
            /\ UNCHANGED <<connections, bc>>
    /\ UNCHANGED <<dbStage, dbPlayers, dbVotes, tally, uc>>

\* The websocket route, lines 30-32: on WebSocketDisconnect the handler
\* calls game_manager.disconnect(websocket, game_id), two arguments for the
\* three parameters of disconnect, which raises TypeError.
disconnect_params == 3

ws_disconnect_args == 2

ws_on_disconnect(websocket, g, player_name) ==
    /\ wsState[websocket] = "open"
    /\ player_name \in registered(g)
    /\ connections[g][player_name] = websocket
    /\ wsState' = [wsState EXCEPT ![websocket] = "gone"]
    /\ IF ws_disconnect_args = disconnect_params
       THEN /\ disconnect(websocket, g, player_name)
            /\ last' = Call("ws_disconnect", g, player_name, websocket,
                            "ok", {})
       ELSE /\ last' = Call("ws_disconnect", g, player_name, websocket,
                            "TypeError", {})
            /\ UNCHANGED <<connections, bc>>
    /\ UNCHANGED <<dbStage, dbPlayers, dbVotes, tally, uc>>

NextRegistry ==
    \/ \E websocket \in Sockets, g \in Rooms, n \in Registrants :
          \/ call_connect(websocket, g, n)
          \/ call_disconnect(websocket, g, n)
          \/ ws_endpoint(websocket, g, n)
          \/ ws_on_disconnect(websocket, g, n)
    \/ \E websocket \in Sockets : ws_gone(websocket)
    \/ \E g \in Rooms : broadcast_call(g)
    \/ broadcast_resume
    \/ \E g \in Rooms, n \in Registrants : send_to_player_call(g, n)
    \/ send_to_player_resume

\* The routes wrap their body in try / except ValueError (join_game, lines
\* 52-73; start_game, lines 78-115): a broadcast or send_to_player that
\* returns lets the route return its response, and any other exception it
\* raises leaves the route unhandled, an internal server error.
route_outcome(status) ==
    IF status = "done" THEN "ok"
    ELSE IF status = "ValueError" THEN "HTTPException"
    ELSE "InternalServerError"

SpecRegistry == Init /\ [][NextRegistry]_vars

\* The HTTP routes together with the websocket route.
NextSubscribe ==
    \/ Next
    \/ \E websocket \in Sockets, g \in Rooms, n \in Names :
          ws_endpoint(websocket, g, n)

SpecSubscribe == Init /\ [][NextSubscribe]_vars

\* ------------------------------------------------------------- two rooms
\* Two room codes, with GameManager's methods called directly on either.
TwoRooms == {"r1", "r2"}

RoomPlayers == {AllNames[i] : i \in 1..MaxRoomPlayers}

RoomSockets == {AllSockets[i] : i \in 1..MaxRoomSockets}

RoomRegistrants == {AllNames[i] : i \in 1..MaxRoomRegistrants}

InitRooms ==
    /\ dbStage = [g \in TwoRooms |-> NoRow]
    /\ dbPlayers = [g \in TwoRooms |-> EmptyDict]
    /\ dbVotes = [g \in TwoRooms |-> <<>>]
    /\ connections = EmptyDict
    /\ tally = NoTally
    /\ last = Call("init", None, None, None, "ok", {})
    /\ wsState = [s \in Sockets |-> "new"]
    /\ bc = NoBroadcast
    /\ uc = NoUnicast

\* create_game, with its assignment of a new dict to connections[game_id]
\* seen by a broadcast that is iterating the old one.
call_create_game(g, host_name) ==
    /\ create_game(g, host_name)
    /\ bc' = IF create_game_status(g) = "ok" THEN iter_after_replace(bc, g)
             ELSE bc
    /\ UNCHANGED <<dbVotes, tally, last, wsState, uc>>

call_join_game(g, player_name) ==
    /\ join_game(g, player_name)
    /\ UNCHANGED <<dbStage, dbVotes, connections, tally, last, regVars>>

\* The outcomes of random.sample drawn in this specification: one imposter,
\* or two; none when start_game raises.
SampledImposters == {{}, {AllNames[1]}, {AllNames[2], AllNames[3]}}

call_start_game(g) ==
    \E imposters \in SampledImposters :
        /\ start_game(g, imposters)
        /\ UNCHANGED <<dbVotes, connections, tally, last, regVars>>

NextRooms ==
    \/ \E g \in TwoRooms :
          \/ call_create_game(g, AllNames[1])
          \/ \E n \in RoomPlayers : call_join_game(g, n)
          \/ call_start_game(g)
          \/ \E websocket \in RoomSockets, n \in RoomRegistrants :
                \/ call_connect(websocket, g, n)
                \/ call_disconnect(websocket, g, n)
          \/ broadcast_call(g)
          \/ \E n \in RoomRegistrants : send_to_player_call(g, n)
    \/ \E websocket \in RoomSockets : ws_gone(websocket)
    \/ broadcast_resume
    \/ send_to_player_resume

SpecRooms == InitRooms /\ [][NextRooms]_vars

\* ----------------------------------------------------------------- claims
LiveRoom(g) == g \in Rooms /\ dbStage[g] # NoRow

Roster(g) == DOMAIN dbPlayers[g]

NumPlayers(g) == Cardinality(Roster(g))

\* The players flagged as imposters of the current round.
Imposters(g) == {n \in Roster(g) : dbPlayers[g][n].is_imposter}

\* The distinct voters with a row in the votes table of a game.
Voters(votes) == {votes[i].voter_player_id : i \in DOMAIN votes}

\* C1: a command on the code of a created room never fails with "game not
\* found" or an internal error because of the way the room is looked up.
C1_LookupResolves ==
    (/\ last.cmd \in {"join_game", "start_game", "submit_answer", "vote",
                      "restart_game", "end_game"}
     /\ LiveRoom(last.game_id))
    => last.status \notin {"GameNotFound", "AttributeError"}

\* C2: start_game on a room with fewer than 3 players fails with the
\* precondition error and leaves the stage and every player row unchanged.
C2_StartNeedsThreePlayers ==
    [][(/\ last'.cmd = "start_game"
        /\ LiveRoom(last'.game_id)
        /\ NumPlayers(last'.game_id) < 3)
       => (/\ last'.status = "NotEnoughPlayers"
           /\ dbStage' = dbStage
           /\ dbPlayers' = dbPlayers)]_vars

C2_Witness ==
    /\ last.cmd = "start_game"
    /\ last.status = "NotEnoughPlayers"
    /\ NumPlayers(last.game_id) = 2
    /\ dbStage[last.game_id] = WAITING
    /\ \A n \in Roster(last.game_id) :
          dbPlayers[last.game_id][n].question = None

\* C3: after a successful start_game on N >= 3 players the imposters are
\* between 1 and N-1 of the room's players, and every player holds exactly
\* one prompt: the imposter prompt iff the player is an imposter.
C3_ImpostersAndPrompts ==
    (last.cmd = "start_game" /\ last.status = "ok")
    => LET g == last.game_id
       IN /\ NumPlayers(g) >= 3
          /\ last.imposters \subseteq Roster(g)
          /\ Cardinality(last.imposters) >= 1
          /\ Cardinality(last.imposters) <= NumPlayers(g) - 1
          /\ Imposters(g) = last.imposters
          /\ \A n \in Roster(g) :
                /\ dbPlayers[g][n].question \in {q_main, q_imposter}
                /\ dbPlayers[g][n].question = q_imposter
                      <=> n \in last.imposters

C3_Witness ==
    /\ last.cmd = "start_game"
    /\ last.status = "ok"
    /\ Cardinality(last.imposters) = NumPlayers(last.game_id) - 1
    /\ Cardinality(last.imposters) >= 2

\* The winner set of a list of vote rows, stated from the rows: the targets
\* with at least one vote that no other target exceeds.
VotesFor(votes, t) ==
    Cardinality({i \in DOMAIN votes : votes[i].voted_player_id = t})

WinnerSet(votes) ==
    {t \in Names : /\ VotesFor(votes, t) > 0
                   /\ \A u \in Names : VotesFor(votes, u) <= VotesFor(votes, t)}

\* C4: when the round is scored, an imposter outside the winner set gains
\* exactly 2, a non-imposter gains exactly 1 iff the winner set holds an
\* imposter, and every other score is unchanged.
C4_ScoringRule ==
    [][(/\ last'.cmd = "reveal_imposter"
        /\ LiveRoom(last'.game_id)
        /\ dbStage[last'.game_id] # GAME_END)
       => LET g == last'.game_id
              W == WinnerSet(dbVotes[g])
              I == Imposters(g)
          IN \A n \in Roster(g) :
                dbPlayers'[g][n].score - dbPlayers[g][n].score =
                   IF n \in I /\ n \notin W THEN 2
                   ELSE IF n \notin I /\ W \cap I # {} THEN 1
                   ELSE 0]_vars

\* C5: the tally maps each target to the number of voters that voted for it,
\* the winner set is every target at the maximum count, and no votes give a
\* maximum of 0 and an empty winner set.
C5_Tally ==
    last.cmd = "tally"
    => LET votes == dbVotes[last.game_id]
       IN /\ DOMAIN tally.vote_counts =
                {t \in Names : VotesFor(votes, t) > 0}
          /\ \A t \in DOMAIN tally.vote_counts :
                tally.vote_counts[t] =
                   Cardinality({v \in Voters(votes) :
                       \E i \in DOMAIN votes :
                          /\ votes[i].voter_player_id = v
                          /\ votes[i].voted_player_id = t})
          /\ tally.most_voted_ids = WinnerSet(votes)
          /\ \A t \in tally.most_voted_ids :
                tally.max_votes = VotesFor(votes, t)
          /\ \A t \in Names : VotesFor(votes, t) <= tally.max_votes
          /\ votes = <<>> => (tally.max_votes = 0 /\ tally.most_voted_ids = {})

C5_Witness ==
    /\ last.cmd = "tally"
    /\ Len(dbVotes[last.game_id]) = 3
    /\ Cardinality(tally.most_voted_ids) = 3
    /\ tally.max_votes = 1

\* The phase of a round in which votes are cast: after reveal_answers and
\* before reveal_imposter (no code writes the stage "voting").
VotingOpen(g) == LiveRoom(g) /\ dbStage[g] = REVEAL_ANSWERS

\* C6: after a player's vote the vote mapping holds exactly one entry for
\* that voter, and it is the latest target.
C6_OneVotePerVoter ==
    [][(/\ last'.cmd = "vote"
        /\ VotingOpen(last'.game_id)
        /\ {last'.player, last'.arg} \subseteq Roster(last'.game_id))
       => LET votes == dbVotes'[last'.game_id]
              mine == {i \in DOMAIN votes :
                          votes[i].voter_player_id = last'.player}
          IN /\ Cardinality(mine) = 1
             /\ \A i \in mine : votes[i].voted_player_id = last'.arg
             /\ Voters(votes) =
                   Voters(dbVotes[last'.game_id]) \cup {last'.player}]_vars

\* C7: a vote closes the round (stage game_end, scores updated) iff every
\* player of the room then has a recorded vote; otherwise the stage and the
\* scores stay.
C7_QuorumClosesVoting ==
    [][(/\ last'.cmd = "vote"
        /\ VotingOpen(last'.game_id)
        /\ {last'.player, last'.arg} \subseteq Roster(last'.game_id))
       => LET g == last'.game_id
          IN /\ last'.status = "ok"
             /\ last'.player \in Voters(dbVotes'[g])
             /\ (dbStage'[g] = GAME_END)
                   <=> (Cardinality(Voters(dbVotes'[g])) = NumPlayers(g))
             /\ dbStage'[g] # GAME_END
                   => (dbStage'[g] = dbStage[g] /\ dbPlayers' = dbPlayers)]_vars

\* C8: submit_answer stores the player's answer, and the room moves to the
\* reveal iff every player then has an answer.
C8_SubmitStoresAnswer ==
    [][(/\ last'.cmd = "submit_answer"
        /\ LiveRoom(last'.game_id)
        /\ dbStage[last'.game_id] = QUESTION
        /\ last'.player \in Roster(last'.game_id))
       => LET g == last'.game_id
          IN /\ last'.status = "ok"
             /\ dbPlayers'[g][last'.player].answer = last'.arg
             /\ (dbStage'[g] = REVEAL_ANSWERS)
                   <=> (\A n \in Roster(g) : dbPlayers'[g][n].answer # None)]_vars

\* C9: a command issued in a phase that has no transition for it is rejected
\* and changes nothing, and a command that fails has changed nothing.
WrongPhase(cmd, stage) ==
    \/ cmd = "start_game" /\ stage # WAITING
    \/ cmd = "submit_answer" /\ stage # QUESTION
    \/ cmd = "vote" /\ stage # REVEAL_ANSWERS
    \/ cmd = "restart_game" /\ stage # GAME_END

C9_PhaseGuards ==
    [][(LiveRoom(last'.game_id)
        /\ (\/ WrongPhase(last'.cmd, dbStage[last'.game_id])
            \/ last'.status # "ok"))
       => (/\ last'.status # "ok"
           /\ UNCHANGED <<dbStage, dbPlayers, dbVotes>>)]_vars

\* C10: restart_game on a scored round keeps the roster and every score,
\* clears each answer and the votes, and assigns the imposters and prompts
\* of a new round.
C10_RestartKeepsScores ==
    [][(/\ last'.cmd = "restart_game"
        /\ LiveRoom(last'.game_id)
        /\ dbStage[last'.game_id] = GAME_END)
       => LET g == last'.game_id
          IN /\ last'.status = "ok"
             /\ DOMAIN dbPlayers'[g] = DOMAIN dbPlayers[g]
             /\ \A n \in Roster(g) :
                   /\ dbPlayers'[g][n].score = dbPlayers[g][n].score
                   /\ dbPlayers'[g][n].answer = None
                   /\ dbPlayers'[g][n].question \in {q_main, q_imposter}
                   /\ dbPlayers'[g][n].question = q_imposter
                         <=> dbPlayers'[g][n].is_imposter
             /\ dbVotes'[g] = <<>>
             /\ dbStage'[g] = QUESTION]_vars

\* C11: before the round is scored, no command response and no event names
\* another player's prompt or imposter flag.  Counterexample statement: the
\* response of a successful start_game names no imposter.
C11_StartResponseHidesImposters ==
    (last.cmd = "start_game" /\ last.status = "ok") => last.imposters = {}

\* C12: a join with a name already present in the room is rejected with the
\* duplicate-name error and leaves the roster, row by row, as it was.
C12_DuplicateNameRejected ==
    [][\A g \in Rooms, n \in Names :
          (LiveRoom(g) /\ n \in Roster(g) /\ post_join_game(g, n))
              => /\ last'.status = "NameTaken"
                 /\ dbPlayers' = dbPlayers
                 /\ Cardinality(DOMAIN dbPlayers'[g]) = NumPlayers(g)]_vars

C12_Witness ==
    /\ last.cmd = "join_game"
    /\ last.status = "NameTaken"
    /\ LiveRoom(last.game_id)
    /\ last.player \in Roster(last.game_id)
    /\ NumPlayers(last.game_id) >= 2

\* A broadcast call that has returned or raised.
BroadcastEnded == bc.status \in {"done", "RuntimeError", "KeyError"}

\* C13: when a player's channel disconnects, the route's handler removes
\* that player's registry entry, keeps every other entry, and leaves the
\* room's stage, player rows and votes as they were.
C13_DisconnectRemovesEntryOnly ==
    [][\A websocket \in Sockets, g \in Rooms, n \in Registrants :
          ws_on_disconnect(websocket, g, n)
              => /\ connections'[g] = dict_del(connections[g], n)
                 /\ UNCHANGED <<dbStage, dbPlayers, dbVotes>>]_vars

\* C14: each (room, name) has one channel, and a channel whose delivery
\* failed is evicted: once the broadcast has ended, no socket whose send
\* raised in it is still registered in the room.
C14_FailedChannelEvicted ==
    [][(bc.status = "running" /\ bc'.status # "running")
          => \A n \in DOMAIN connections'[bc.game_id] :
                connections'[bc.game_id][n] \notin bc.failed]_vars

\* C15: a broadcast attempts every player registered at the call, one
\* recipient's failure not stopping the others, and removes exactly the
\* recipients whose delivery failed: of the entries no other call wrote,
\* each socket was sent to, and it is gone from the registry iff its send
\* raised.
C15_BroadcastIndependentPerRecipient ==
    [][(bc.status = "running" /\ bc'.status # "running")
          => \A n \in DOMAIN bc.untouched :
                /\ bc.untouched[n] \in bc.sent \cup bc.failed
                /\ (bc.untouched[n] \in bc.failed)
                      <=> (n \notin DOMAIN connections'[bc.game_id])]_vars

\* C16: end_game removes the room from the live set and drops every
\* registry entry of the room.
C16_EndRemovesRoom ==
    (last.cmd = "end_game" /\ last.game_id \in Rooms)
        => /\ ~LiveRoom(last.game_id)
           /\ registered(last.game_id) = {}

\* C17: opening a subscription for a player of a live room registers the
\* socket under the player's name and sends the current-state snapshot as
\* its first event.
C17_SubscriptionRegistersAndSnapshots ==
    [][\A websocket \in Sockets, g \in Rooms, n \in Names :
          (LiveRoom(g) /\ n \in Roster(g) /\ ws_endpoint(websocket, g, n))
              => /\ g \in DOMAIN connections'
                 /\ n \in DOMAIN connections'[g]
                 /\ connections'[g][n] = websocket
                 /\ last'.status = "current_state"]_vars

C19_QuorumScoresOnce ==
    [][\A g \in Rooms :
          (/\ VotingOpen(g)
           /\ last.cmd = "vote" /\ last.game_id = g
           /\ last'.cmd = "vote" /\ last'.game_id = g
           /\ last.player # last'.player
           /\ {last.player, last'.player} = Roster(g))
              => dbStage'[g] = GAME_END]_vars

\* C20: a broadcast works on a stable snapshot of the registrants: it does
\* not fail when another call registers or unregisters meanwhile, and every
\* entry no other call wrote whose socket is open has received the event.
C20_BroadcastStableSnapshot ==
    [][(bc.status = "running" /\ bc'.status # "running")
          => /\ bc'.status = "done"
             /\ \A n \in DOMAIN bc.untouched :
                   wsState[bc.untouched[n]] = "open"
                      => bc.untouched[n] \in bc.sent]_vars

\* C24: the summary broadcast by reveal_imposter names exactly the players
\* flagged as imposters of the round it closes.
C24_SummaryNamesImposters ==
    (last.cmd = "reveal_imposter" /\ LiveRoom(last.game_id))
        => last.imposters = Imposters(last.game_id)

\* C26: while a room is in stage question_answering, every player of its
\* roster has a prompt, also a player who joined after start_game.
C26_AnsweringRosterHasPrompts ==
    \A g \in Rooms :
        (LiveRoom(g) /\ dbStage[g] = QUESTION)
            => \A n \in Roster(g) : dbPlayers[g][n].question # None

\* C21: eviction after a failed delivery removes only the channel that
\* failed and raises no error: when a unicast or a broadcast ends, every
\* entry whose socket did not fail in that call is still registered with
\* the same socket, and the call did not end with KeyError.
C21_EvictionRemovesOnlyFailedChannel ==
    [][/\ (uc.status = "sending" /\ uc'.status # "sending")
             => /\ uc'.status = "done"
                /\ \A n \in registered(uc.game_id) :
                      connections[uc.game_id][n] # uc.websocket
                         => /\ n \in DOMAIN connections'[uc.game_id]
                            /\ connections'[uc.game_id][n]
                                  = connections[uc.game_id][n]
       /\ (bc.status = "running" /\ bc'.status # "running")
             => /\ bc'.status # "KeyError"
                /\ \A n \in registered(bc.game_id) :
                      connections[bc.game_id][n] \notin bc.failed
                         => /\ n \in DOMAIN connections'[bc.game_id]
                            /\ connections'[bc.game_id][n]
                                  = connections[bc.game_id][n]]_vars

\* C22: a delivery failure inside a broadcast or a unicast is not
\* propagated to the command that awaits it: whenever such a call has
\* ended, the route that awaited it returns its normal result.
C22_DeliveryFailureNotPropagated ==
    /\ BroadcastEnded => route_outcome(bc.status) = "ok"
    /\ uc.status \notin {"idle", "sending"} => route_outcome(uc.status) = "ok"

\* C23: on one channel the events of a room arrive in the order in which
\* they were emitted: a broadcast never delivers its event to a socket that
\* has already received the event of a call issued after the broadcast.
C23_EventsArriveInOrder == bc.sent \cap bc.overtaken = {}

\* A step of one of GameManager's methods called on room a.
OnRoom(a) ==
    \/ call_create_game(a, AllNames[1])
    \/ \E n \in RoomPlayers : call_join_game(a, n)
    \/ call_start_game(a)
    \/ \E websocket \in RoomSockets, n \in RoomRegistrants :
          \/ call_connect(websocket, a, n)
          \/ call_disconnect(websocket, a, n)
    \/ broadcast_call(a)
    \/ (bc.game_id = a /\ broadcast_resume)
    \/ \E n \in RoomRegistrants : send_to_player_call(a, n)
    \/ (uc.game_id = a /\ send_to_player_resume)

\* The sockets a step delivers an event to.
Delivered ==
    (IF bc'.status = "running"
     THEN bc'.sent \ (IF bc.status = "running" THEN bc.sent ELSE {})
     ELSE {})
    \cup (IF uc'.status = "sending" /\ uc.status # "sending" /\ uc'.sent
          THEN {uc'.websocket}
          ELSE {})

\* Room b is as it was, and no socket registered in b got an event.
RoomUntouched(b) ==
    /\ dbStage'[b] = dbStage[b]
    /\ dbPlayers'[b] = dbPlayers[b]
    /\ dbVotes'[b] = dbVotes[b]
    /\ (b \in DOMAIN connections') <=> (b \in DOMAIN connections)
    /\ b \in DOMAIN connections => connections'[b] = connections[b]
    /\ \A websocket \in Delivered :
          \A n \in registered(b) : connections[b][n] # websocket

\* C25: rooms are independent: a step of any command or registry operation
\* on room a leaves the stage, the player rows (roster, imposter flags,
\* scores), the votes and the registry entries of every other room b as
\* they were, and delivers no event to a socket registered in b.
C25_RoomsIndependent ==
    [][\A a \in TwoRooms : \A b \in TwoRooms \ {a} :
          RoomUntouched(b) \/ ~OnRoom(a)]_vars

C25_Witness ==
    /\ dbStage["r1"] = QUESTION
    /\ dbStage["r2"] = QUESTION
    /\ Imposters("r1") # Imposters("r2")
    /\ registered("r2") # {}
    /\ bc.status = "running" /\ bc.game_id = "r1" /\ bc.failed # {}
    /\ uc.status = "sending" /\ uc.game_id = "r2"

====
